---- MODULE Spec2Model ----
(***************************************************************************)
(* Breach-protocol solver: the SCIP constraint model built by ModelRunner, *)
(* the result extraction of ResultExtractor, ScipSolver.solve, the        *)
(* scoring of a path by Solution.from_task, the construction of Task and   *)
(* SoftTask, and the comparison of Solutions.                              *)
(*                                                                         *)
(* Coordinates and steps are 0-based as in the Python source; TLA+         *)
(* sequences are 1-based, so cell (i, j) of a matrix M is M[i+1][j+1].     *)
(***************************************************************************)
EXTENDS Integers, Sequences, FiniteSets, TLC

VARIABLES
    task,         \* the Task given to solve / from_task
    config,       \* the ScipConfig given to solve
    pc,           \* position of the solve call
    is_builded,   \* ModelRunner._is_builded
    is_finished,  \* TaskContext.is_finished
    sol,          \* the engine's best solution: values of x and y
    result,       \* what solve returned
    scored_path,  \* the path last handed to Solution.from_task
    scored,       \* what Solution.from_task returned for it
    call,         \* the arguments of a constructor or method called on its own
    ret,          \* what that call returned or raised
    console,      \* the lines written to standard output
    solver,       \* ScipSolver instances: what self.context, self.runner and
                  \* self.extractor refer to, and the TaskContexts created
    calls         \* concurrent solve calls: task, position and result of each

vars == <<task, config, pc, is_builded, is_finished, sol, result, scored_path, scored,
          call, ret, console, solver, calls>>

-----------------------------------------------------------------------------
(* HexSymbol *)

S_STOP == -1
S_BLANK == 0
S_XR == 11

HexSymbol == S_STOP .. S_XR

-----------------------------------------------------------------------------
(* Bounds of the model *)

MaxBuffer == 3
MaxPathLen == 2

-----------------------------------------------------------------------------
(* Generic helpers *)

RECURSIVE SumSeq(_)
SumSeq(s) == IF s = <<>> THEN 0 ELSE Head(s) + SumSeq(Tail(s))

RECURSIVE ProdSeq(_)
ProdSeq(s) == IF s = <<>> THEN 1 ELSE Head(s) * ProdSeq(Tail(s))

MinOf(S) == CHOOSE v \in S : \A w \in S : v <= w
MaxOf(S) == CHOOSE v \in S : \A w \in S : v >= w

\* a value stored in a numpy int8: two's complement wrap-around
Int8(v) == ((v + 128) % 256) - 128

-----------------------------------------------------------------------------
(* The inputs: Tasks as SoftTask.make_hard produces them (rectangular       *)
(* matrix, daemons right-padded with S_STOP to the longest one, int8 costs, *)
(* buffer_size > 0).                                                        *)

Matrices ==
    { << <<a, b>>, <<c, d>> >> : a, b, c, d \in {1, 2} }
    \cup
    { << <<2, 0>>, <<0, 1>> >>,
      << <<0, 0>>, <<0, 0>> >>,
      << <<1>> >>,
      << <<1, 2>> >>,
      << <<2, 1>>, <<3, 2>> >>,
      << <<1, 2, 3>>, <<3, 1, 2>> >>,
      << <<1, 3>>, <<2, 2>>, <<3, 1>> >> }

DaemonSets ==
    { [daemons |-> << <<1, 2>> >>,                   daemons_costs |-> <<2>>],
      [daemons |-> << <<1>>, <<2>> >>,               daemons_costs |-> <<12, 11>>],
      [daemons |-> << <<1, 2>>, <<1, S_STOP>> >>,    daemons_costs |-> <<100, 100>>],
      [daemons |-> << <<1, 2>>, <<2, 1>> >>,         daemons_costs |-> <<100, 100>>],
      [daemons |-> << <<1, S_BLANK>> >>,             daemons_costs |-> <<1>>],
      [daemons |-> << <<1, 2, 1>>, <<3, S_STOP, S_STOP>> >>, daemons_costs |-> <<3, 1>>] }

Tasks ==
    { [matrix |-> M, daemons |-> D.daemons, daemons_costs |-> D.daemons_costs,
       buffer_size |-> b] : M \in Matrices, D \in DaemonSets, b \in 1 .. MaxBuffer }

\* absgap = 0 and time_limit = 1e20 are the defaults of ScipConfig
Configs ==
    { [verbose_output |-> v, absgap |-> g.absgap, time_limited |-> g.time_limited] :
        v \in BOOLEAN,
        g \in { [absgap |-> 0, time_limited |-> FALSE],
                [absgap |-> 1, time_limited |-> FALSE],
                [absgap |-> 0, time_limited |-> TRUE] } }

-----------------------------------------------------------------------------
(* TaskContext *)

n(T) == Len(T.matrix)
m(T) == Len(T.matrix[1])
d_count(T) == Len(T.daemons)

\* np.sum(self.daemons != HexSymbol.S_STOP, axis=1)
d_lengths(T) ==
    [i \in 1 .. d_count(T) |->
        Cardinality({s \in 1 .. Len(T.daemons[i]) : T.daemons[i][s] # S_STOP})]

\* The objective has the rational coefficient 0.1 * min(cost_i / length_i).
\* Every objective value is kept as an integer by the common factor
\* RewardScale = 10 * prod(length_i).
RewardScale(T) == 10 * ProdSeq(d_lengths(T))

\* 0.1 * (daemons_costs / d_lengths).min(), times RewardScale
unused_cell_reward(T) ==
    MinOf({ T.daemons_costs[i] * (RewardScale(T) \div (10 * d_lengths(T)[i]))
            : i \in 1 .. d_count(T) })

\* rewards_per_symbol.min() of an empty array raises ValueError ("zero-size
\* array to reduction operation"); the except clause names other exceptions
unused_cell_reward_raises(T) == d_count(T) = 0

-----------------------------------------------------------------------------
(* ModelRunner: the constraint model.  An assignment of the binary          *)
(* variables x[i, j, t] is the set of the triples <<i, j, t>> whose         *)
(* variable is 1; y is a sequence of 0/1, one entry per daemon.             *)

Rows(T) == 0 .. n(T) - 1
Cols(T) == 0 .. m(T) - 1
step(T) == T.buffer_size
Steps(T) == 0 .. step(T) - 1

\* the value of x[i, j, t]
XVal(x, i, j, t) == IF <<i, j, t>> \in x THEN 1 ELSE 0

\* quicksum(x[i, j, t] for i in range(n) for j in range(m))
StepSum(x, t) == Cardinality({c \in x : c[3] = t})

\* "one cell per step"
OneCellPerStep(T, x) == \A t \in Steps(T) : StepSum(x, t) <= 1

\* "continuous path": curr_sum <= prev_sum
ContinuousPath(T, x) ==
    \A t \in 1 .. step(T) - 1 : StepSum(x, t) <= StepSum(x, t - 1)

\* "cell used at max one time"
CellOnce(T, x) ==
    \A i \in Rows(T), j \in Cols(T) :
        Cardinality({c \in x : c[1] = i /\ c[2] = j}) <= 1

used_buffer(x) == Cardinality(x)

\* "max_steps"
MaxSteps(T, x) == used_buffer(x) <= step(T)

\* "start in first row"
StartInFirstRow(T, x) ==
    \A i \in 1 .. n(T) - 1 :
        Cardinality({c \in x : c[1] = i /\ c[3] = 0}) = 0

\* the move rule with the parities exchanged: rows at odd steps
MoveRuleFlipped(T, x) ==
    \A t \in 1 .. step(T) - 1 : \A i \in Rows(T), j \in Cols(T) :
        IF t % 2 = 0
        THEN XVal(x, i, j, t) <= Cardinality({c \in x : c[2] = j /\ c[3] = t - 1})
        ELSE XVal(x, i, j, t) <= Cardinality({c \in x : c[1] = i /\ c[3] = t - 1})

\* "row/col alteration": odd steps keep the column of the previous step,
\* even steps keep its row
MoveRule(T, x) ==
    \A t \in 1 .. step(T) - 1 : \A i \in Rows(T), j \in Cols(T) :
        IF t % 2 = 1
        THEN XVal(x, i, j, t) <= Cardinality({c \in x : c[2] = j /\ c[3] = t - 1})
        ELSE XVal(x, i, j, t) <= Cardinality({c \in x : c[1] = i /\ c[3] = t - 1})

MovementConstraints(T, x) ==
    /\ OneCellPerStep(T, x)
    /\ ContinuousPath(T, x)
    /\ CellOnce(T, x)
    /\ MaxSteps(T, x)
    /\ StartInFirstRow(T, x)
    /\ MoveRule(T, x)

\* The assignments of x that are enumerated: per step no cell or one cell.
\* (Assignments with two cells in one step violate "one cell per step" and
\* are left out of the enumeration.)
NoCell == <<-1, -1>>
XCandidates(T) ==
    { { <<f[t][1], f[t][2], t>> : t \in {u \in Steps(T) : f[u] # NoCell} }
      : f \in [Steps(T) -> (Rows(T) \X Cols(T)) \cup {NoCell}] }

\* ctx.buffer_seq[t]: quicksum(matrix[i][j] * x[i, j, t])
RECURSIVE SumMatrix(_, _)
SumMatrix(T, cells) ==
    IF cells = {} THEN 0
    ELSE LET c == CHOOSE d \in cells : TRUE
         IN T.matrix[c[1] + 1][c[2] + 1] + SumMatrix(T, cells \ {c})

buffer_seq(T, x, t) == SumMatrix(T, {c \in x : c[3] = t})

big_m == S_XR + 1

\* one start position too few: the last offset is left out (not the code's)
valid_p_short(T, i) == step(T) - d_lengths(T)[i]

\* number of start positions of daemon i: step - curr_len + 1
valid_p(T, i) == step(T) - d_lengths(T)[i] + 1

\* indicator constraints without the big-M relaxation: the symbols are
\* required whatever z[i][p] is (not the code's)
IndicatorUnrelaxed(T, x, i, p, zp) ==
    \A s \in 0 .. d_lengths(T)[i] - 1 :
        /\ buffer_seq(T, x, p + s) >= T.daemons[i][s + 1]
        /\ buffer_seq(T, x, p + s) <= T.daemons[i][s + 1]

\* indicator_lb / indicator_ub of daemon i at start position p, with the
\* value zp of z[i][p]
Indicator(T, x, i, p, zp) ==
    \A s \in 0 .. d_lengths(T)[i] - 1 :
        /\ buffer_seq(T, x, p + s) >= T.daemons[i][s + 1] - big_m * (1 - zp)
        /\ buffer_seq(T, x, p + s) <= T.daemons[i][s + 1] + big_m * (1 - zp)

\* _set_daemons_activation for daemon i with y[i] = yi: some values of
\* z[i][0 .. valid_p-1] (zi is the set of the p with z[i][p] = 1) satisfy the
\* indicator constraints, y_upper and y_lower
DaemonActivation(T, x, i, yi) ==
    IF valid_p(T, i) <= 0
    THEN yi = 0
    ELSE \E zi \in SUBSET (0 .. valid_p(T, i) - 1) :
            /\ \A p \in 0 .. valid_p(T, i) - 1 :
                   Indicator(T, x, i, p, IF p \in zi THEN 1 ELSE 0)
            /\ yi <= Cardinality(zi)
            /\ \A p \in zi : yi >= 1

\* every assignment (x, y) that satisfies all constraints of build()
Feasible(T) ==
    LET legal == {x \in XCandidates(T) : MovementConstraints(T, x)}
    IN { [x |-> x, y |-> y] :
           <<x, y>> \in { xy \in legal \X [1 .. d_count(T) -> {0, 1}] :
               \A i \in 1 .. d_count(T) : DaemonActivation(T, xy[1], i, xy[2][i]) } }

\* _set_objective, times RewardScale
Objective(T, a) ==
    RewardScale(T) * SumSeq([i \in 1 .. d_count(T) |-> T.daemons_costs[i] * a.y[i]])
    + unused_cell_reward(T) * (step(T) - used_buffer(a.x))

\* an engine whose stopping rule depends on verbose_output (not the code's)
EngineOutcomesByVerbosity(T, cfg) ==
    LET feas == Feasible(T)
        best == MaxOf({Objective(T, a) : a \in feas})
    IN IF cfg.time_limited \/ cfg.verbose_output
       THEN feas
       ELSE {a \in feas : Objective(T, a) >= best - cfg.absgap * RewardScale(T)}

\* The engine (SCIP) run by ModelRunner.optimize.  With absgap = 0 and no
\* time limit it stops at a proven optimum; with absgap > 0 it may stop at any
\* assignment within absgap of the optimum; at the time limit it stops with
\* whatever feasible assignment it holds.
EngineOutcomes(T, cfg) ==
    LET feas == Feasible(T)
        best == MaxOf({Objective(T, a) : a \in feas})
    IN IF cfg.time_limited
       THEN feas
       ELSE {a \in feas : Objective(T, a) >= best - cfg.absgap * RewardScale(T)}

-----------------------------------------------------------------------------
(* ResultExtractor *)

\* the triples <<t, i, j>> in the order of product(range(buffer_size),
\* range(n), range(m))
ProductOrder(T) ==
    [k \in 1 .. step(T) * n(T) * m(T) |->
        << (k - 1) \div (n(T) * m(T)),
           ((k - 1) % (n(T) * m(T))) \div m(T),
           (k - 1) % m(T) >>]

\* ResultExtractor.path: (i, j) for every (t, i, j) with x[i, j, t] > 0.5
path(T, x) ==
    LET chosen(c) == <<c[2], c[3], c[1]>> \in x
        sel == SelectSeq(ProductOrder(T), chosen)
    IN [k \in 1 .. Len(sel) |-> <<sel[k][2], sel[k][3]>>]

\* ResultExtractor.buffer_nums: one entry for every t in range(buffer_size)
buffer_nums(T, x) == [k \in 1 .. step(T) |-> Int8(buffer_seq(T, x, k - 1))]

\* ResultExtractor.active_daemons
active_daemons(T, y) == [i \in 1 .. d_count(T) |-> y[i] = 1]

\* np.dot of an int8 array and a bool array is computed in int8
DotInt8(costs, active) ==
    Int8(SumSeq([i \in 1 .. Len(costs) |-> IF active[i] THEN costs[i] ELSE 0]))

\* ResultExtractor.total_points
total_points(T, y) == DotInt8(T.daemons_costs, active_daemons(T, y))

-----------------------------------------------------------------------------
(* Solution / NoSolution *)

\* The dataclass Solution.  Its checks are in a method named __post__init__,
\* which the dataclass machinery (it calls __post_init__) never runs, so the
\* constructor stores the four fields as they are given.
Solution(p, buffer_sequence, active, points) ==
    [kind |-> "Solution", path |-> p, buffer_sequence |-> buffer_sequence,
     active_daemons |-> active, total_points |-> points]

NoSolution(reason) == [kind |-> "NoSolution", reason |-> reason]

Raised(exception) == [kind |-> "raised", exception |-> exception]

\* numpy index r into an axis of length len: negative indices count from
\* the end, anything outside -len .. len-1 is an IndexError
InAxis(r, len) == -len <= r /\ r <= len - 1
AxisIndex(r, len) == IF r < 0 THEN r + len ELSE r

\* (windows == d).all(axis=1).any() for the sliding windows of width Len(d)
WindowMatch(buffer_sequence, d) ==
    \E p \in 0 .. Len(buffer_sequence) - Len(d) :
        \A s \in 1 .. Len(d) : buffer_sequence[p + s] = d[s]

\* Solution.from_task for a path of shape (k, 2), given as a sequence of
\* <<row, col>> pairs
from_task(p, T) ==
    IF Len(p) = 0 THEN NoSolution("Received empty path.")
    ELSE IF \E k \in 1 .. Len(p) :
                ~InAxis(p[k][1], n(T)) \/ ~InAxis(p[k][2], m(T))
    THEN NoSolution("Failed to construct buffer_sequence")
    ELSE IF Len(p) > T.buffer_size
    THEN Raised("ValueError")  \* buffer[:k] has only buffer_size slots
    ELSE LET buffer_sequence ==
                 [k \in 1 .. Len(p) |->
                     T.matrix[AxisIndex(p[k][1], n(T)) + 1][AxisIndex(p[k][2], m(T)) + 1]]
             active ==
                 [i \in 1 .. Len(T.daemons) |->
                     /\ Len(T.daemons[i]) <= Len(buffer_sequence)
                     /\ WindowMatch(buffer_sequence, T.daemons[i])]
         IN Solution(p, buffer_sequence, active, DotInt8(T.daemons_costs, active))

-----------------------------------------------------------------------------
(* ScipSolver.solve, in its steps: build, optimize, extract and return *)

NoValue == [kind |-> "none"]

Init ==
    /\ task \in Tasks
    /\ config \in Configs
    /\ pc = "start"
    /\ is_builded = FALSE
    /\ is_finished = FALSE
    /\ sol = NoValue
    /\ result = NoValue
    /\ scored_path = <<>>
    /\ scored = NoValue
    /\ call = NoValue
    /\ ret = NoValue
    /\ console = <<>>
    /\ solver = NoValue
    /\ calls = NoValue

\* solve left by an exception: nothing is returned
Failure(exception) == [value |-> Raised(exception), time |-> "none"]

\* self.runner.build(): _set_objective reads unused_cell_reward; an
\* exception that is not an OptimizationError passes through solve
Build ==
    /\ pc = "start"
    /\ IF unused_cell_reward_raises(task)
       THEN /\ pc' = "raised"
            /\ result' = Failure("ValueError")
            /\ UNCHANGED is_builded
       ELSE /\ pc' = "built"
            /\ is_builded' = TRUE
            /\ UNCHANGED result
    /\ UNCHANGED <<task, config, is_finished, sol, scored_path, scored, call, ret, console, solver, calls>>

\* the engine raises while build() adds variables, constraints or the
\* objective: build() has no handler and solve catches OptimizationError
\* only, so the engine's exception leaves solve as it is
BuildFault ==
    /\ pc = "start"
    /\ pc' = "raised"
    /\ result' = Failure("EngineError")
    /\ UNCHANGED <<task, config, is_builded, is_finished, sol, scored_path, scored, call, ret, console, solver, calls>>

\* the engine raises in model.optimize(): optimize() wraps it in
\* OptimizationError, which solve wraps again; is_finished is not set
OptimizeFault ==
    /\ pc = "built"
    /\ is_builded
    /\ pc' = "raised"
    /\ result' = Failure("OptimizationError")
    /\ UNCHANGED <<task, config, is_builded, is_finished, sol, scored_path, scored, call, ret, console, solver, calls>>

\* self.runner.optimize(); the engine writes its log unless
\* model.hideOutput(not config.verbose_output) has hidden it
Optimize ==
    /\ pc = "built"
    /\ is_builded
    /\ \E a \in EngineOutcomes(task, config) : sol' = a
    /\ is_finished' = TRUE
    /\ console' = IF config.verbose_output THEN Append(console, "SCIP log") ELSE console
    /\ pc' = "optimized"
    /\ UNCHANGED <<task, config, is_builded, result, scored_path, scored, call, ret, solver, calls>>

\* what solve returns for the engine's solution a
solve_result(T, a) ==
    LET x_path == path(T, a.x)
    IN IF Len(x_path) = 0
       THEN [value |-> NoSolution("Found path is empty"), time |-> "-1.0"]
       ELSE [value |-> Solution(x_path, buffer_nums(T, a.x), active_daemons(T, a.y),
                                total_points(T, a.y)),
             time |-> "elapsed"]

\* a solve that refuses a solution not proven optimal (not the code's)
ReturnOptimalOnly ==
    /\ pc = "optimized"
    /\ is_finished
    /\ console' = IF config.verbose_output
                  THEN Append(console, "SCIP model build time") ELSE console
    /\ IF config.absgap = 0 /\ ~config.time_limited
       THEN /\ result' = solve_result(task, sol)
            /\ pc' = "returned"
       ELSE /\ result' = Failure("OptimizationError")
            /\ pc' = "raised"
    /\ UNCHANGED <<task, config, is_builded, is_finished, sol, scored_path, scored, call, ret, solver, calls>>

\* the print of the timings (verbose_output only), the extraction and the
\* return of solve
Return ==
    /\ pc = "optimized"
    /\ is_finished
    /\ console' = IF config.verbose_output
                  THEN Append(console, "SCIP model build time") ELSE console
    /\ result' = solve_result(task, sol)
    /\ pc' = "returned"
    /\ UNCHANGED <<task, config, is_builded, is_finished, sol, scored_path, scored, call, ret, solver, calls>>

\* the caller hands the returned path to Solution.from_task
Rescore ==
    /\ pc = "returned"
    /\ result.value.kind = "Solution"
    /\ scored_path' = result.value.path
    /\ scored' = from_task(result.value.path, task)
    /\ pc' = "rescored"
    /\ UNCHANGED <<task, config, is_builded, is_finished, sol, result, call, ret, console, solver, calls>>

Next == Build \/ BuildFault \/ Optimize \/ OptimizeFault \/ Return \/ Rescore

Spec == Init /\ [][Next]_vars

-----------------------------------------------------------------------------
(* Solution.from_task on its own: any path of up to MaxPathLen coordinates, *)
(* each from one below to one above the grid's index range                  *)

RECURSIVE SeqsUpTo(_, _)
SeqsUpTo(S, k) ==
    IF k = 0 THEN {<<>>}
    ELSE LET shorter == SeqsUpTo(S, k - 1)
         IN shorter \cup {Append(q, e) : q \in {r \in shorter : Len(r) = k - 1}, e \in S}

PathInputs(T) == SeqsUpTo((-1 .. n(T)) \X (-1 .. m(T)), MaxPathLen)

ScoreInit ==
    /\ task \in Tasks
    /\ config \in {c \in Configs : c.absgap = 0 /\ ~c.time_limited /\ ~c.verbose_output}
    /\ pc = "start"
    /\ is_builded = FALSE
    /\ is_finished = FALSE
    /\ sol = NoValue
    /\ result = NoValue
    /\ scored_path = <<>>
    /\ scored = NoValue
    /\ call = NoValue
    /\ ret = NoValue
    /\ console = <<>>
    /\ solver = NoValue
    /\ calls = NoValue

ScorePath ==
    /\ pc = "start"
    /\ \E p \in PathInputs(task) :
          /\ scored_path' = p
          /\ scored' = from_task(p, task)
    /\ pc' = "scored"
    /\ UNCHANGED <<task, config, is_builded, is_finished, sol, result, call, ret, console, solver, calls>>

\* The path argument by its type and shape alone: not an ndarray, or an
\* ndarray of the given shape
PathArguments ==
    { [is_array |-> FALSE, shape |-> <<>>] }
    \cup
    { [is_array |-> TRUE, shape |-> sh] :
        sh \in { <<>>, <<0>>, <<2>>, <<0, 3>>, <<2, 1>>, <<2, 3>>,
                 <<1, 2, 2>>, <<2, 2, 2>>, <<1, 3, 1>>, <<0, 2>>, <<2, 2>> } }

ShapeIsN2(arg) == arg.is_array /\ Len(arg.shape) = 2 /\ arg.shape[2] = 2

\* The type and shape checks at the head of Solution.from_task.
\* path.shape[1] is evaluated for every ndarray, whatever its ndim: for
\* fewer than two dimensions it is an IndexError.
from_task_shape(arg) ==
    IF ~arg.is_array THEN Raised("ValueError")
    ELSE IF Len(arg.shape) < 2 THEN Raised("IndexError")
    ELSE IF Len(arg.shape) # 2 \/ arg.shape[2] # 2 THEN Raised("ValueError")
    ELSE NoValue

\* from_task is handed a path that is not of shape (n, 2)
ScoreMalformed ==
    /\ pc = "start"
    /\ \E arg \in PathArguments :
          /\ ~ShapeIsN2(arg)
          /\ call' = arg
          /\ scored' = from_task_shape(arg)
    /\ pc' = "malformed"
    /\ UNCHANGED <<task, config, is_builded, is_finished, sol, result, scored_path, ret,
                   console, solver, calls>>

ScoreNext == ScorePath \/ ScoreMalformed

ScoreSpec == ScoreInit /\ [][ScoreNext]_vars

-----------------------------------------------------------------------------
(* Constructors and methods called on their own: the call's arguments are   *)
(* in call, what it returned or raised is in ret; the variables of solve    *)
(* stay as they are                                                         *)

solveVars == <<task, config, pc, is_builded, is_finished, sol, result, scored_path, scored,
               console, solver, calls>>

SolveIdle ==
    /\ task = NoValue
    /\ config = NoValue
    /\ pc = "idle"
    /\ is_builded = FALSE
    /\ is_finished = FALSE
    /\ sol = NoValue
    /\ result = NoValue
    /\ scored_path = <<>>
    /\ scored = NoValue
    /\ console = <<>>
    /\ solver = NoValue
    /\ calls = NoValue

-----------------------------------------------------------------------------
(* Task(matrix, daemons, daemons_costs, buffer_size).  A numpy array is its *)
(* dtype, its shape and the set of values it holds; buffer_size is a numpy  *)
(* integer scalar with its dtype.                                           *)

ndim(a) == Len(a.shape)

TaskMatrixInputs ==
    { [dtype |-> t, shape |-> sh, cells |-> c] :
        t \in {"int8", "int64"},
        sh \in { <<>>, <<2>>, <<2, 2>>, <<1, 2, 2>> },
        c \in { {1}, {50} } }

TaskDaemonsInputs ==
    { [dtype |-> "int8", shape |-> sh, cells |-> c] :
        sh \in { <<>>, <<2>>, <<1, 2>>, <<2, 2>> },
        c \in { {1}, {-7} } }

TaskCostsInputs ==
    { [dtype |-> "int8", shape |-> sh, cells |-> {1}] : sh \in { <<>>, <<1>>, <<2>> } }

TaskBufferInputs ==
    { [dtype |-> t, value |-> v] : t \in {"int8", "int64"}, v \in {-1, 0, 1} }

TaskArgs ==
    { [matrix |-> M, daemons |-> D, daemons_costs |-> C, buffer_size |-> B] :
        M \in TaskMatrixInputs, D \in TaskDaemonsInputs,
        C \in TaskCostsInputs, B \in TaskBufferInputs }

\* Task.__post_init__: the checks in their order.  shape[0] of a 0-d array
\* is an IndexError, raised before the collected messages are.
Task_post_init(a) ==
    LET msg == { k \in 1 .. 5 :
                   \/ k = 1 /\ a.matrix.dtype # "int8"
                   \/ k = 2 /\ ndim(a.matrix) # 2
                   \/ k = 3 /\ ndim(a.daemons) # 2
                   \/ k = 4 /\ ndim(a.daemons) > 0 /\ ndim(a.daemons_costs) > 0
                            /\ a.daemons.shape[1] # a.daemons_costs.shape[1]
                   \/ k = 5 /\ ~(a.buffer_size.dtype = "int8" /\ a.buffer_size.value > 0) }
    IN IF ndim(a.daemons) = 0 \/ ndim(a.daemons_costs) = 0
       THEN Raised("IndexError")
       ELSE IF msg # {}
       THEN Raised("ValueError")
       ELSE [kind |-> "Task", matrix |-> a.matrix, daemons |-> a.daemons,
             daemons_costs |-> a.daemons_costs, buffer_size |-> a.buffer_size]

TaskInit ==
    /\ SolveIdle
    /\ call \in TaskArgs
    /\ ret = NoValue

ConstructTask ==
    /\ ret = NoValue
    /\ ret' = Task_post_init(call)
    /\ UNCHANGED <<solveVars, call>>

TaskNext == ConstructTask

TaskSpec == TaskInit /\ [][TaskNext]_vars

-----------------------------------------------------------------------------
(* A solve request: the Task is constructed from the request, then solved.  *)
(* The requests include an empty daemon set and buffer_size 0.              *)

RequestTasks ==
    { [matrix |-> M, daemons |-> D.daemons, daemons_costs |-> D.daemons_costs,
       buffer_size |-> b] :
        M \in { << <<1>> >>, << <<1, 2>> >>, << <<1, 2>>, <<2, 1>> >>,
                << <<2, 0>>, <<0, 1>> >> },
        D \in DaemonSets \cup {[daemons |-> <<>>, daemons_costs |-> <<>>]},
        b \in 0 .. MaxBuffer - 1 }

\* a matrix of the model as the numpy array Task receives
AsArray(rows) ==
    [dtype |-> "int8",
     shape |-> <<Len(rows), IF Len(rows) = 0 THEN 1 ELSE Len(rows[1])>>,
     cells |-> UNION { {rows[i][j] : j \in 1 .. Len(rows[i])} : i \in 1 .. Len(rows) }]

AsTaskArgs(T) ==
    [matrix |-> AsArray(T.matrix),
     daemons |-> AsArray(T.daemons),
     daemons_costs |-> [dtype |-> "int8", shape |-> <<Len(T.daemons_costs)>>,
                        cells |-> {T.daemons_costs[i] : i \in 1 .. Len(T.daemons_costs)}],
     buffer_size |-> [dtype |-> "int8", value |-> T.buffer_size]]

RequestInit ==
    /\ task \in RequestTasks
    /\ config \in {c \in Configs : c.absgap = 0 /\ ~c.time_limited /\ ~c.verbose_output}
    /\ pc = "request"
    /\ is_builded = FALSE
    /\ is_finished = FALSE
    /\ sol = NoValue
    /\ result = NoValue
    /\ scored_path = <<>>
    /\ scored = NoValue
    /\ call = NoValue
    /\ ret = NoValue
    /\ console = <<>>
    /\ solver = NoValue
    /\ calls = NoValue

\* Task(...) for the request: Task.__post_init__
AcceptRequest ==
    /\ pc = "request"
    /\ LET made == Task_post_init(AsTaskArgs(task))
       IN IF made.kind = "raised"
          THEN /\ pc' = "raised"
               /\ result' = Failure(made.exception)
          ELSE /\ pc' = "start"
               /\ UNCHANGED result
    /\ UNCHANGED <<task, config, is_builded, is_finished, sol, scored_path, scored, call, ret, console, solver, calls>>

RequestNext == AcceptRequest \/ Build \/ Optimize \/ Return

RequestSpec == RequestInit /\ [][RequestNext]_vars

-----------------------------------------------------------------------------
(* The ordering and equality of Solutions *)

SolutionValues ==
    { Solution(p, [k \in 1 .. Len(p) |-> 1], act, pts) :
        p \in { << <<0, 0>> >>, << <<0, 1>> >>, << <<0, 0>>, <<1, 0>> >> },
        act \in { <<TRUE>>, <<FALSE>> },
        pts \in 1 .. 3 }

\* Solution.__eq__
Solution_eq(a, b) == a.total_points = b.total_points

\* Solution.__lt__: the branch for different total_points returns the
\* value of the test it has just made
Solution_lt(a, b) ==
    IF a.total_points # b.total_points
    THEN a.total_points # b.total_points
    ELSE Len(a.path) < Len(b.path)

\* __gt__ as functools.total_ordering derives it from __lt__ and __eq__
Solution_gt(a, b) == ~Solution_lt(a, b) /\ ~Solution_eq(a, b)

\* Solution.is_identical
is_identical(a, b) ==
    /\ a.path = b.path
    /\ a.buffer_sequence = b.buffer_sequence
    /\ a.active_daemons = b.active_daemons
    /\ a.total_points = b.total_points

\* ndarray.tobytes() of an int8 array of coordinates: its cells row by row
tobytes(p) == [k \in 1 .. 2 * Len(p) |-> p[(k + 1) \div 2][IF k % 2 = 1 THEN 1 ELSE 2]]

\* Solution.__hash__: the hash of the tuple of the four fields, taken here
\* as the tuple itself (equal tuples hash equally, different tuples are not
\* expected to)
Solution_hash(a) ==
    <<tobytes(a.path), a.buffer_sequence, a.active_daemons, a.total_points>>

\* len({a, b}): a set keeps the second element unless it has the hash of
\* the first and compares equal to it
set_len(a, b) == IF Solution_hash(a) = Solution_hash(b) /\ Solution_eq(a, b) THEN 1 ELSE 2

OrderInit ==
    /\ SolveIdle
    /\ call \in [a : SolutionValues, b : SolutionValues]
    /\ ret = NoValue

\* a < b, b < a, a > b, a == b, a.is_identical(b), hash(a), hash(b) and
\* len({a, b})
Compare ==
    /\ ret = NoValue
    /\ ret' = [kind |-> "compared",
               lt |-> Solution_lt(call.a, call.b),
               lt_swapped |-> Solution_lt(call.b, call.a),
               gt |-> Solution_gt(call.a, call.b),
               eq |-> Solution_eq(call.a, call.b),
               identical |-> is_identical(call.a, call.b),
               hash_a |-> Solution_hash(call.a),
               hash_b |-> Solution_hash(call.b),
               set_len |-> set_len(call.a, call.b)]
    /\ UNCHANGED <<solveVars, call>>

OrderNext == Compare

OrderSpec == OrderInit /\ [][OrderNext]_vars

-----------------------------------------------------------------------------
(* SoftTask: lists of display labels, turned into a Task by make_hard *)

\* DISPLAY_TO_HEX, without the label of S_BLANK
DISPLAY_TO_HEX ==
    [label \in {"??", "1C", "55", "BD", "E9", "7A", "FF", "X9", "XX", "XH", "IX", "XR"} |->
        CASE label = "??" -> S_STOP
          [] label = "1C" -> 1
          [] label = "55" -> 2
          [] label = "BD" -> 3
          [] label = "E9" -> 4
          [] label = "7A" -> 5
          [] label = "FF" -> 6
          [] label = "X9" -> 7
          [] label = "XX" -> 8
          [] label = "XH" -> 9
          [] label = "IX" -> 10
          [] label = "XR" -> S_XR]

mapper_to_int(label) == DISPLAY_TO_HEX[label]

\* costs is either omitted (None) or a list with one cost per daemon
CostsArguments(daemons) ==
    { [given |-> FALSE, value |-> <<>>] }
    \cup { [given |-> TRUE, value |-> c] : c \in [1 .. Len(daemons) -> {1, 5}] }

SoftTaskArgs ==
    { [matrix |-> M, daemons |-> D, buffer_size |-> b, costs |-> c] :
        <<M, D, b, c>> \in
            { x \in { << <<"1C">> >>, << <<"1C", "55">>, <<"55", "1C">> >>, << <<"ZZ">> >> }
                    \X { <<>>, << <<"1C">> >>, << <<"1C", "55">> >>,
                         << <<"1C">>, <<"55", "1C">> >>,
                         << <<"1C", "55", "BD">>, <<"55">> >> }
                    \X (-1 .. MaxBuffer - 1)
                    \X (CostsArguments(<< <<"1C">>, <<"55">> >>)
                        \cup CostsArguments(<< <<"1C">> >>) \cup CostsArguments(<<>>)) :
                x[4].given => Len(x[4].value) = Len(x[2]) } }

\* SoftTask.recalc_costs
recalc_costs(st) ==
    [st EXCEPT !._costs = [i \in 1 .. Len(st._daemons) |-> Len(st._daemons[i])]]

\* SoftTask.__init__ for arguments of the declared types: the checks, the
\* four assignments, then recalc_costs()
SoftTask_init(a) ==
    IF ~(a.buffer_size >= 0)
    THEN Raised("ValueError")
    ELSE recalc_costs([kind |-> "SoftTask", _matrix |-> a.matrix, _daemons |-> a.daemons,
                       _buffer_size |-> a.buffer_size,
                       _costs |-> IF a.costs.given THEN a.costs.value ELSE <<>>])

\* SoftTask._padded_daemons, for a non-empty list of daemons
padded_daemons(st) ==
    LET max_len == MaxOf({Len(st._daemons[i]) : i \in 1 .. Len(st._daemons)})
    IN [i \in 1 .. Len(st._daemons) |->
          [s \in 1 .. max_len |->
              IF s <= Len(st._daemons[i]) THEN st._daemons[i][s] ELSE "??"]]

\* a _padded_daemons that extends the stored rows themselves (not the code's)
daemons_padded_in_place(st) == padded_daemons(st)

\* the stored rows after _padded_daemons: each row is copied (sequence.copy())
\* before it is extended
stored_daemons(st) == st._daemons

LabelsOf(rows) == UNION { {rows[i][j] : j \in 1 .. Len(rows[i])} : i \in 1 .. Len(rows) }

\* SoftTask.make_hard: every exception (max() of no daemons, the KeyError
\* of an unknown label, the ValueError of Task) becomes a ValueError
make_hard(st) ==
    IF Len(st._daemons) = 0
       \/ ~(LabelsOf(st._matrix) \cup LabelsOf(st._daemons) \subseteq DOMAIN DISPLAY_TO_HEX)
    THEN Raised("ValueError")
    ELSE LET T == [matrix |-> [i \in 1 .. Len(st._matrix) |->
                                 [j \in 1 .. Len(st._matrix[i]) |-> mapper_to_int(st._matrix[i][j])]],
                   daemons |-> [i \in 1 .. Len(st._daemons) |->
                                 [s \in 1 .. Len(padded_daemons(st)[i]) |->
                                     mapper_to_int(padded_daemons(st)[i][s])]],
                   daemons_costs |-> [i \in 1 .. Len(st._costs) |-> Int8(st._costs[i])],
                   buffer_size |-> Int8(st._buffer_size)]
         IN IF Task_post_init(AsTaskArgs(T)).kind = "raised"
            THEN Raised("ValueError")
            ELSE [kind |-> "Task", matrix |-> T.matrix, daemons |-> T.daemons,
                  daemons_costs |-> T.daemons_costs, buffer_size |-> T.buffer_size]

SoftInit ==
    /\ SolveIdle
    /\ call \in SoftTaskArgs
    /\ ret = NoValue

\* SoftTask(matrix, daemons, buffer_size, costs)
NewSoftTask ==
    /\ ret = NoValue
    /\ ret' = SoftTask_init(call)
    /\ UNCHANGED <<solveVars, call>>

\* soft_task.make_hard(), called at most twice: the SoftTask stays in ret,
\* the Task made (or the exception) is in task, that of the call before in
\* result
MakeHard ==
    /\ ret.kind = "SoftTask"
    /\ result = NoValue
    /\ task' = make_hard(ret)
    /\ result' = task
    /\ ret' = IF Len(ret._daemons) = 0 THEN ret
              ELSE [ret EXCEPT !._daemons = stored_daemons(ret)]
    /\ UNCHANGED <<config, pc, is_builded, is_finished, sol, scored_path, scored, console,
                   solver, calls, call>>

SoftNext == NewSoftTask \/ MakeHard

SoftSpec == SoftInit /\ [][SoftNext]_vars

-----------------------------------------------------------------------------
(* ScipConfig(verbose_output, absgap, time_limit).  An argument is None, a  *)
(* float m * 10^e, the float NaN, a string, or a list.                      *)

PyNone == [type |-> "None"]
PyFloat(mant, exp) == [type |-> "float", m |-> mant, e |-> exp]
PyNaN == [type |-> "nan"]
PyStr(text) == [type |-> "str", text |-> text]
PyList == [type |-> "list"]
PyBool(b) == [type |-> "bool", b |-> b]

\* the strings float() parses, with their values
FloatLiterals == [text \in {"-1", "0", "1"} |->
                    CASE text = "-1" -> PyFloat(-1, 0)
                      [] text = "0" -> PyFloat(0, 0)
                      [] text = "1" -> PyFloat(1, 0)]

\* float(v): the value, or the exception float() raises
float(v) ==
    CASE v.type = "float" -> v
      [] v.type = "nan" -> v
      [] v.type = "bool" -> PyFloat(IF v.b THEN 1 ELSE 0, 0)
      [] v.type = "str" -> IF v.text \in DOMAIN FloatLiterals
                           THEN FloatLiterals[v.text] ELSE Raised("ValueError")
      [] OTHER -> Raised("TypeError")

Converts(v) == "type" \in DOMAIN float(v)

\* v < 0.0 and v <= 0.0 for a float; every comparison with NaN is False
IsNegative(v) == "type" \in DOMAIN v /\ v.type = "float" /\ v.m < 0
IsNotPositive(v) == "type" \in DOMAIN v /\ v.type = "float" /\ v.m <= 0

ScipConfigArgs ==
    [verbose_output : {PyNone, PyBool(TRUE), PyBool(FALSE)},
     absgap : {PyNone, PyFloat(-1, 0), PyFloat(0, 0), PyFloat(1, 0), PyNaN,
               PyStr("1"), PyStr("abc"), PyList},
     time_limit : {PyNone, PyFloat(-1, 0), PyFloat(0, 0), PyFloat(1, 0), PyNaN,
                   PyStr("1"), PyStr("-1"), PyStr("abc"), PyList}]

\* ScipConfig.__post_init__.  When float() fails the field keeps the
\* argument, and the comparison that follows the try statement is made on
\* it: a string or a list compared with 0.0 is a TypeError.
ScipConfig_post_init(a) ==
    LET absgap == IF a.absgap = PyNone THEN PyFloat(0, 0) ELSE float(a.absgap)
        time_limit == IF a.time_limit = PyNone THEN PyFloat(1, 20) ELSE float(a.time_limit)
        msg == { k \in 1 .. 2 :
                   \/ k = 1 /\ IsNegative(absgap)
                   \/ k = 2 /\ IsNotPositive(time_limit) }
    IN IF "type" \notin DOMAIN absgap \/ "type" \notin DOMAIN time_limit
       THEN Raised("TypeError")
       ELSE IF msg # {}
       THEN Raised("ValueError")
       ELSE [kind |-> "ScipConfig",
             verbose_output |-> IF a.verbose_output = PyNone THEN FALSE
                                ELSE a.verbose_output.b,
             absgap |-> absgap, time_limit |-> time_limit]

ConfigInit ==
    /\ SolveIdle
    /\ call \in ScipConfigArgs
    /\ ret = NoValue

NewScipConfig ==
    /\ ret = NoValue
    /\ ret' = ScipConfig_post_init(call)
    /\ UNCHANGED <<solveVars, call>>

ConfigNext == NewScipConfig

ConfigSpec == ConfigInit /\ [][ConfigNext]_vars

-----------------------------------------------------------------------------
(* Two solve calls running at once (threads), on one ScipSolver instance or *)
(* on two.  solve keeps its TaskContext, ModelRunner and ResultExtractor in *)
(* attributes of the instance (self.context, self.runner, self.extractor)   *)
(* and reaches them through self at every later statement.                  *)

CallIds == 1 .. 2
Instances == 1 .. 2

ConcTasks ==
    { T \in Tasks :
        /\ T.buffer_size = 2
        /\ T.matrix \in { << <<1, 2>>, <<2, 1>> >>, << <<2, 1>>, <<3, 2>> >>, << <<1, 2>> >> }
        /\ T.daemons_costs \in { <<2>>, <<12, 11>> } }

\* TaskContext.__init__ together with ModelRunner.__init__: nothing built,
\* nothing solved
NewContext(T) ==
    [kind |-> "TaskContext", task |-> T, builds |-> 0, is_finished |-> FALSE, sol |-> NoValue]

ConcInit ==
    /\ task = NoValue
    /\ pc = "idle"
    /\ is_builded = FALSE
    /\ is_finished = FALSE
    /\ sol = NoValue
    /\ result = NoValue
    /\ scored_path = <<>>
    /\ scored = NoValue
    /\ console = <<>>
    /\ call = NoValue
    /\ ret = NoValue
    /\ config \in {c \in Configs : c.absgap = 0 /\ ~c.time_limited /\ ~c.verbose_output}
    /\ solver = [i \in Instances |-> NoValue]
    /\ \E T1, T2 \in ConcTasks, i2 \in Instances :
          calls = [c \in CallIds |->
                     [task |-> IF c = 1 THEN T1 ELSE T2,
                      inst |-> IF c = 1 THEN 1 ELSE i2,
                      pc |-> "start",
                      result |-> NoValue]]

concOther == <<task, config, pc, is_builded, is_finished, sol, result, scored_path, scored,
               console, call, ret>>

\* self.context = TaskContext(task, config); self.runner = ...;
\* self.extractor = ...
ConcSetup(c) ==
    /\ calls[c].pc = "start"
    /\ solver' = [solver EXCEPT ![calls[c].inst] = NewContext(calls[c].task)]
    /\ calls' = [calls EXCEPT ![c].pc = "setup"]
    /\ UNCHANGED concOther

\* self.runner.build(): adds variables and constraints to the model of the
\* context the instance holds now.  Adding to a model the engine has already
\* solved is outside what the engine defines: it is refused or carried out.
ConcBuild(c) ==
    LET i == calls[c].inst
        ctx == solver[i]
    IN /\ calls[c].pc = "setup"
       /\ \/ /\ solver' = [solver EXCEPT ![i].builds = ctx.builds + 1]
             /\ calls' = [calls EXCEPT ![c].pc = "built"]
          \/ /\ ctx.is_finished
             /\ solver' = solver
             /\ calls' = [calls EXCEPT ![c].pc = "raised",
                                       ![c].result = Failure("Exception")]
       /\ UNCHANGED concOther

\* self.runner.optimize(): the runner of the context the instance holds now
ConcOptimize(c) ==
    LET i == calls[c].inst
        ctx == solver[i]
    IN /\ calls[c].pc = "built"
       /\ IF ctx.builds = 0
          THEN /\ solver' = solver
               /\ calls' = [calls EXCEPT ![c].pc = "raised",
                                         ![c].result = Failure("RuntimeError")]
          ELSE IF ctx.is_finished
          THEN /\ solver' = solver
               /\ calls' = [calls EXCEPT ![c].pc = "optimized"]
          ELSE /\ \E a \in EngineOutcomes(ctx.task, config) :
                     solver' = [solver EXCEPT ![i].sol = a, ![i].is_finished = TRUE]
               /\ calls' = [calls EXCEPT ![c].pc = "optimized"]
       /\ UNCHANGED concOther

\* the four reads of self.extractor and the return.  After two builds
\* context.y has 2 * d_count entries, active_daemons is that long and
\* np.dot with the d_count costs raises ValueError.
ConcReturn(c) ==
    LET i == calls[c].inst
        ctx == solver[i]
    IN /\ calls[c].pc = "optimized"
       /\ IF ~ctx.is_finished
          THEN calls' = [calls EXCEPT ![c].pc = "raised",
                                      ![c].result = Failure("RuntimeError")]
          ELSE IF ctx.builds > 1
          THEN calls' = [calls EXCEPT ![c].pc = "raised",
                                      ![c].result = Failure("ValueError")]
          ELSE calls' = [calls EXCEPT ![c].pc = "returned",
                                      ![c].result = solve_result(ctx.task, ctx.sol)]
       /\ UNCHANGED solver
       /\ UNCHANGED concOther

ConcNext ==
    \/ \E c \in CallIds : ConcSetup(c)
    \/ \E c \in CallIds : ConcBuild(c)
    \/ \E c \in CallIds : ConcOptimize(c)
    \/ \E c \in CallIds : ConcReturn(c)

ConcSpec == ConcInit /\ [][ConcNext]_vars

-----------------------------------------------------------------------------
(* ModelRunner and ResultExtractor driven directly: build, optimize and the *)
(* four properties of the extractor, called in any order on one             *)
(* TaskContext.  call.method is the method called last, ret what it         *)
(* returned or raised.  build is called at most once (pc "new" before,      *)
(* "used" after).                                                           *)

ExtractorProperties == {"path", "buffer_nums", "active_daemons", "total_points"}

DriverInit ==
    /\ task \in {T \in Tasks : T.buffer_size <= 2}
    /\ config \in {c \in Configs : ~c.verbose_output}
    /\ pc = "new"
    /\ is_builded = FALSE
    /\ is_finished = FALSE
    /\ sol = NoValue
    /\ result = NoValue
    /\ scored_path = <<>>
    /\ scored = NoValue
    /\ console = <<>>
    /\ solver = NoValue
    /\ calls = NoValue
    /\ call = NoValue
    /\ ret = NoValue

driverOther == <<task, config, result, scored_path, scored, console, solver, calls>>

\* ModelRunner.build(): _is_builded is set by its last statement, so an
\* exception of the engine on the way leaves it False
DriverBuild ==
    /\ pc = "new"
    /\ pc' = "used"
    /\ call' = [method |-> "build"]
    /\ \/ /\ is_builded' = TRUE
          /\ ret' = [kind |-> "returned"]
       \/ /\ is_builded' = is_builded
          /\ ret' = Raised("EngineError")
    /\ UNCHANGED <<is_finished, sol>>
    /\ UNCHANGED driverOther

\* an optimize() without the test of _is_builded (not the code's)
DriverOptimizeUnguarded ==
    /\ call' = [method |-> "optimize"]
    /\ \/ /\ ret' = Raised("OptimizationError")
          /\ UNCHANGED <<is_finished, sol>>
       \/ /\ IF is_finished
             THEN sol' = sol
             ELSE \E a \in EngineOutcomes(task, config) : sol' = a
          /\ is_finished' = TRUE
          /\ ret' = [kind |-> "returned"]
    /\ UNCHANGED <<pc, is_builded>>
    /\ UNCHANGED driverOther

\* ModelRunner.optimize(): RuntimeError before build() has completed; an
\* exception of the engine becomes OptimizationError and is_finished is not
\* touched; otherwise is_finished is set.  An engine that has solved the
\* model keeps its solution when asked again.
DriverOptimize ==
    /\ call' = [method |-> "optimize"]
    /\ IF ~is_builded
       THEN /\ ret' = Raised("RuntimeError")
            /\ UNCHANGED <<is_finished, sol>>
       ELSE \/ /\ ret' = Raised("OptimizationError")
               /\ UNCHANGED <<is_finished, sol>>
            \/ /\ IF is_finished
                  THEN sol' = sol
                  ELSE \E a \in EngineOutcomes(task, config) : sol' = a
               /\ is_finished' = TRUE
               /\ ret' = [kind |-> "returned"]
    /\ UNCHANGED <<pc, is_builded>>
    /\ UNCHANGED driverOther

\* ResultExtractor.path, .buffer_nums, .active_daemons, .total_points: each
\* starts with _require_finished()
DriverExtract(prop) ==
    /\ call' = [method |-> prop]
    /\ ret' = IF ~is_finished
              THEN Raised("RuntimeError")
              ELSE [kind |-> "returned",
                    value |-> CASE prop = "path" -> path(task, sol.x)
                                [] prop = "buffer_nums" -> buffer_nums(task, sol.x)
                                [] prop = "active_daemons" -> active_daemons(task, sol.y)
                                [] prop = "total_points" -> total_points(task, sol.y)]
    /\ UNCHANGED <<pc, is_builded, is_finished, sol>>
    /\ UNCHANGED driverOther

DriverNext ==
    \/ DriverBuild
    \/ DriverOptimize
    \/ \E prop \in ExtractorProperties : DriverExtract(prop)

DriverSpec == DriverInit /\ [][DriverNext]_vars

-----------------------------------------------------------------------------
(* The solver registry.  A solver code is a member of one of the two Enum   *)
(* classes named SolverCode (solvers_configs/base_config.py and             *)
(* solver_configs.py); members of different Enum classes are never equal.   *)
(* solver.created counts the instances made so far, an instance is its      *)
(* class and its number.                                                    *)

MaxInstances == 3
MaxCodes == 2

SolverNames == {"SCIP", "BRUTER", "ANTCOL"}

\* the Enum of solvers_configs/base_config.py, which solver_abc.py and the
\* solver's module import
BaseSolverCode == { [enum |-> "solvers_configs", name |-> nm] : nm \in SolverNames }

\* the Enum of solver_configs.py, which solver_registry.py and the package
\* import, in the order of its definition
RegistrySolverCode ==
    << [enum |-> "solver_configs", name |-> "SCIP"],
       [enum |-> "solver_configs", name |-> "BRUTER"],
       [enum |-> "solver_configs", name |-> "ANTCOL"] >>

SolverCodes == BaseSolverCode \cup { RegistrySolverCode[k] : k \in 1 .. 3 }

\* existing_solvers after import: the one @register_solver(SolverCode.SCIP)
existing_solvers ==
    [code \in { [enum |-> "solvers_configs", name |-> "SCIP"] } |-> "ScipSolver"]

\* GetSolver.single given the number of instances made so far
single(code, created) ==
    IF code \notin DOMAIN existing_solvers
    THEN Raised("ValueError")
    ELSE [kind |-> "instance", class |-> existing_solvers[code], id |-> created + 1]

\* GetSolver.multiple: one single() per code in turn, the first exception
\* ends it; a code given twice keeps the later instance
multiple(codes, created) ==
    IF \E k \in 1 .. Len(codes) : codes[k] \notin DOMAIN existing_solvers
    THEN Raised("ValueError")
    ELSE [kind |-> "dict",
          value |-> [code \in { codes[k] : k \in 1 .. Len(codes) } |->
                       single(code, created - 1
                                + MaxOf({k \in 1 .. Len(codes) : codes[k] = code}))]]

\* the instances made by a call of multiple before it returned or raised
made(codes) ==
    IF \E k \in 1 .. Len(codes) : codes[k] \notin DOMAIN existing_solvers
    THEN MinOf({k \in 1 .. Len(codes) : codes[k] \notin DOMAIN existing_solvers}) - 1
    ELSE Len(codes)

CodeLists == UNION { [1 .. k -> SolverCodes] : k \in 0 .. MaxCodes }

RegistryInit ==
    /\ task = NoValue
    /\ config = NoValue
    /\ pc = "idle"
    /\ is_builded = FALSE
    /\ is_finished = FALSE
    /\ sol = NoValue
    /\ result = NoValue
    /\ scored_path = <<>>
    /\ scored = NoValue
    /\ console = <<>>
    /\ calls = NoValue
    /\ solver = [created |-> 0]
    /\ call = NoValue
    /\ ret = NoValue

registryOther == <<task, config, pc, is_builded, is_finished, sol, result, scored_path,
                   scored, console, calls>>

GetSingle ==
    /\ solver.created < MaxInstances
    /\ \E code \in SolverCodes :
          /\ call' = [method |-> "single", codes |-> <<code>>]
          /\ ret' = single(code, solver.created)
          /\ solver' = [created |-> solver.created + made(<<code>>)]
    /\ UNCHANGED registryOther

GetMultiple ==
    /\ solver.created < MaxInstances
    /\ \E codes \in CodeLists :
          /\ call' = [method |-> "multiple", codes |-> codes]
          /\ ret' = multiple(codes, solver.created)
          /\ solver' = [created |-> solver.created + made(codes)]
    /\ UNCHANGED registryOther

\* GetSolver.all: multiple(*SolverCode) with the SolverCode the registry
\* module imported
GetAll ==
    /\ solver.created < MaxInstances
    /\ call' = [method |-> "all", codes |-> RegistrySolverCode]
    /\ ret' = multiple(RegistrySolverCode, solver.created)
    /\ solver' = [created |-> solver.created + made(RegistrySolverCode)]
    /\ UNCHANGED registryOther

RegistryNext == GetSingle \/ GetMultiple \/ GetAll

RegistrySpec == RegistryInit /\ [][RegistryNext]_vars

-----------------------------------------------------------------------------
(* The reference the claims are stated against: legal paths (movement       *)
(* rules) and the reward of a path (daemon matching on true lengths).       *)

Returned == pc \in {"returned", "rescored"}
ReturnedSolution == Returned /\ result.value.kind = "Solution"
ProvenOptimal == config.absgap = 0 /\ ~config.time_limited

SymbolsAt(T, p) == [k \in 1 .. Len(p) |-> T.matrix[p[k][1] + 1][p[k][2] + 1]]

NoDuplicate(p) == \A k1, k2 \in 1 .. Len(p) : p[k1] = p[k2] => k1 = k2

\* step t = k - 1 of the path shares its column (t odd) or row (t even) with
\* step t - 1
Alternates(p) ==
    \A k \in 2 .. Len(p) :
        IF (k - 1) % 2 = 1 THEN p[k][2] = p[k - 1][2] ELSE p[k][1] = p[k - 1][1]

InGrid(T, p) == \A k \in 1 .. Len(p) : p[k][1] \in Rows(T) /\ p[k][2] \in Cols(T)

IsLegalPath(T, p) ==
    /\ Len(p) <= T.buffer_size
    /\ InGrid(T, p)
    /\ Len(p) > 0 => p[1][1] = 0
    /\ NoDuplicate(p)
    /\ Alternates(p)

RECURSIVE LegalPathsOfLen(_, _)
LegalPathsOfLen(T, k) ==
    IF k = 0 THEN {<<>>}
    ELSE {q \in {Append(r, c) : r \in LegalPathsOfLen(T, k - 1), c \in Rows(T) \X Cols(T)} :
            IsLegalPath(T, q)}

LegalPaths(T) == UNION {LegalPathsOfLen(T, k) : k \in 0 .. T.buffer_size}

\* daemon i occurs in the buffer: its first L_i symbols at some offset p
Occurs(T, buf, i) ==
    LET L == d_lengths(T)[i]
    IN \E p \in 0 .. Len(buf) - L : \A s \in 1 .. L : buf[p + s] = T.daemons[i][s]

ExactSum(T, active) ==
    SumSeq([i \in 1 .. d_count(T) |-> IF active[i] THEN T.daemons_costs[i] ELSE 0])

Reward(T, p) ==
    ExactSum(T, [i \in 1 .. d_count(T) |-> Occurs(T, SymbolsAt(T, p), i)])

MaxReward(T) == MaxOf({Reward(T, p) : p \in LegalPaths(T)})

\* Tasks on which the matching of BLANK and the width of int8 play no part:
\* no daemon holds BLANK and all costs together fit a signed byte
PlainTask(T) ==
    /\ \A i \in 1 .. d_count(T) : \A s \in 1 .. Len(T.daemons[i]) :
           T.daemons[i][s] # S_BLANK
    /\ SumSeq(T.daemons_costs) <= 127

-----------------------------------------------------------------------------
(* C1: every Solution returned by solve has a path of 1 .. buffer_size      *)
(* cells without a repeated coordinate, starting in row 0, whose step t     *)
(* shares its column (t odd) or its row (t even) with step t - 1; and the   *)
(* k-th entry of the path is the cell chosen at step k - 1, the used steps  *)
(* being the prefix 0 .. k-1.                                               *)
C1_PathIsLegal ==
    ReturnedSolution =>
        LET p == result.value.path
        IN /\ 1 <= Len(p) /\ Len(p) <= task.buffer_size
           /\ NoDuplicate(p)
           /\ p[1][1] = 0
           /\ Alternates(p)
           /\ \A k \in 1 .. Len(p) : <<p[k][1], p[k][2], k - 1>> \in sol.x
           /\ {c[3] : c \in sol.x} = 0 .. Len(p) - 1

\* a returned path of three cells that leaves row 0 and comes to a new column
C1_Witness ==
    /\ ReturnedSolution
    /\ ProvenOptimal
    /\ Len(result.value.path) = 3
    /\ result.value.path[2][1] # 0
    /\ result.value.path[3][2] # result.value.path[2][2]

-----------------------------------------------------------------------------
(* C2: at a proven optimum (absgap 0, no time limit), for positive costs,   *)
(* solve returns a Solution whose total_points is the maximum reward over   *)
(* all legal paths whenever that maximum is positive; the returned path is  *)
(* never one of lower reward chosen for its unused buffer slots.  Stated    *)
(* for the tasks of the claim in which no daemon holds BLANK and the costs  *)
(* fit a signed byte together, so that total_points is the path's reward.   *)
C2_MaxReward ==
    (Returned /\ ProvenOptimal /\ PlainTask(task) /\ MaxReward(task) > 0) =>
        /\ result.value.kind = "Solution"
        /\ result.value.total_points = MaxReward(task)

(* C3: at a proven optimum the returned path is a shortest one among the    *)
(* legal paths that attain the maximum reward.  Stated for the tasks of the *)
(* claim in which no daemon holds BLANK and the costs fit a signed byte.    *)
C3_ShortestAmongBest ==
    (ReturnedSolution /\ ProvenOptimal /\ PlainTask(task)) =>
        /\ Reward(task, result.value.path) = MaxReward(task)
        /\ \A q \in LegalPaths(task) :
               Reward(task, q) = MaxReward(task) => Len(q) >= Len(result.value.path)

(* C4: Solution.from_task on the path of a Solution returned by solve gives *)
(* a Solution with the same buffer_sequence, active_daemons, total_points.  *)
C4_OracleReproduces ==
    pc = "rescored" =>
        /\ scored.kind = "Solution"
        /\ scored.buffer_sequence = result.value.buffer_sequence
        /\ scored.active_daemons = result.value.active_daemons
        /\ scored.total_points = result.value.total_points

(* C5: Solution.from_task marks daemon i active exactly when its first L_i  *)
(* symbols (STOP padding excluded) occur contiguously in buffer_sequence.   *)
C5_ActiveIffOccurs ==
    (pc = "scored" /\ scored.kind = "Solution" /\ InGrid(task, scored.path)) =>
        \A i \in 1 .. d_count(task) :
            scored.active_daemons[i] <=> Occurs(task, scored.buffer_sequence, i)

(* C6: in a Solution returned by solve no daemon is active whose true       *)
(* length exceeds the number of cells of the returned path.                 *)
C6_LongDaemonInactive ==
    ReturnedSolution =>
        \A i \in 1 .. d_count(task) :
            d_lengths(task)[i] > Len(result.value.path) => ~result.value.active_daemons[i]

(* C7: Solution.from_task returns NoSolution for a non-empty in-grid path   *)
(* that activates no daemon; no Solution has total_points <= 0.             *)
C7_NoZeroSolution ==
    (pc = "scored" /\ InGrid(task, scored_path)) =>
        ~(scored.kind = "Solution" /\ scored.total_points <= 0)

(* C8: solve never returns a Solution with total_points = 0; without a      *)
(* positive reward it returns NoSolution paired with -1.0, at a proven      *)
(* optimum and at a time-limit or gap incumbent alike.                      *)
C8_SolveNoZeroSolution ==
    Returned =>
        /\ ~(result.value.kind = "Solution" /\ result.value.total_points = 0)
        /\ result.value.kind = "NoSolution" => result.time = "-1.0"

(* C9: in every Solution returned by solve or from_task, buffer_sequence    *)
(* has as many entries as path and entry t is the symbol at path[t].        *)
C9_BufferMatchesPath ==
    /\ ReturnedSolution =>
          result.value.buffer_sequence = SymbolsAt(task, result.value.path)
    /\ (pc \in {"scored", "rescored"} /\ scored.kind = "Solution"
          /\ InGrid(task, scored.path)) =>
          scored.buffer_sequence = SymbolsAt(task, scored.path)

(* C10: total_points of from_task and of ResultExtractor is the exact sum   *)
(* of the costs of the active daemons, without wrap-around.                 *)
C10_ExactTotal ==
    /\ ReturnedSolution =>
          result.value.total_points = ExactSum(task, result.value.active_daemons)
    /\ (pc \in {"scored", "rescored"} /\ scored.kind = "Solution") =>
          scored.total_points = ExactSum(task, scored.active_daemons)


-----------------------------------------------------------------------------
(* Task construction *)

\* the arguments break one of the invariants of a Task
TaskArgsInvalid(a) ==
    \/ ndim(a.matrix) # 2
    \/ ndim(a.daemons) # 2
    \/ ndim(a.daemons_costs) = 0
    \/ ndim(a.daemons) > 0 /\ ndim(a.daemons_costs) > 0
       /\ a.daemons.shape[1] # a.daemons_costs.shape[1]
    \/ ~(a.matrix.cells \subseteq HexSymbol)
    \/ ~(a.daemons.cells \subseteq HexSymbol)
    \/ a.buffer_size.value <= 0

\* C11: Task construction raises ValueError, and no other exception, when
\* the matrix or the daemons are not 2-D, when daemons and daemons_costs
\* differ in count, when a grid or daemon cell is not a HexSymbol value or
\* when buffer_size <= 0; every Task that is constructed has none of these
\* defects.  (Stated for arrays of one dimension or more.)
C11_TaskValidated ==
    (pc = "idle" /\ ret # NoValue /\ "matrix" \in DOMAIN call
        /\ ndim(call.daemons) > 0 /\ ndim(call.daemons_costs) > 0) =>
        /\ ret.kind = "raised" => ret.exception = "ValueError"
        /\ TaskArgsInvalid(call) => ret = Raised("ValueError")

-----------------------------------------------------------------------------
(* Degenerate requests and engine faults *)

RequestEnded == pc \in {"raised", "returned"}

\* C12: a solve request with an empty daemon set ends in a NoSolution
\* value, neither in an exception nor in a Solution with total_points = 0.
\* (The claim says the same of buffer_capacity = 0 and of an empty grid.)
C12_DegenerateIsNoSolution ==
    (RequestEnded /\ d_count(task) = 0 /\ task.buffer_size > 0) =>
        result.value.kind = "NoSolution"

\* C13: an exception raised by the engine while the model is built or
\* optimized reaches the caller of solve as OptimizationError; solve does
\* not return a NoSolution or a Solution for it and is_finished stays false.
C13_EngineFaultIsOptimizationError ==
    pc = "raised" =>
        /\ result.value = Raised("OptimizationError")
        /\ ~is_finished

-----------------------------------------------------------------------------
(* Solution.from_task: what it rejects *)

\* C14: Solution.from_task raises ValueError, and no other exception, for
\* every path that is not a numpy array of shape (n, 2): non-arrays, 1-D
\* arrays, arrays of 3 or more dimensions, 2-D arrays whose second
\* dimension is not 2.  (Stated for non-arrays and for arrays of one
\* dimension or more.)
C14_MalformedIsValueError ==
    (pc = "malformed" /\ (call.is_array => Len(call.shape) >= 1)) =>
        scored = Raised("ValueError")

\* a coordinate of p lies outside 0 <= row < rows, 0 <= col < cols
OutsideGrid(T, p) ==
    \E k \in 1 .. Len(p) :
        ~(0 <= p[k][1] /\ p[k][1] < n(T) /\ 0 <= p[k][2] /\ p[k][2] < m(T))

\* C15: Solution.from_task returns NoSolution, never a Solution, for a path
\* with a coordinate outside the grid (negative coordinates included) and
\* for the empty path.  (Stated for paths of at most buffer_size cells.)
C15_OutsideGridIsNoSolution ==
    (pc = "scored" /\ Len(scored_path) <= task.buffer_size
        /\ (scored_path = <<>> \/ OutsideGrid(task, scored_path))) =>
        scored.kind = "NoSolution"

\* C16: every Solution returned by Solution.from_task has a legal path: at
\* most buffer_size cells, no cell twice, first cell in row 0, column/row
\* alternation from step 1 on; any other path is not packaged as a
\* Solution.  (Stated for paths inside the grid.)
C16_ScoredPathIsLegal ==
    (pc = "scored" /\ scored.kind = "Solution" /\ InGrid(task, scored_path)) =>
        IsLegalPath(task, scored.path)

-----------------------------------------------------------------------------
(* A daemon that cannot be completed *)

\* row r right-padded with S_STOP to width w, as SoftTask pads daemons
PadTo(r, w) == [s \in 1 .. w |-> IF s <= Len(r) THEN r[s] ELSE S_STOP]

\* T with the daemon d of cost c appended
WithDaemon(T, d, c) ==
    LET w == IF Len(T.daemons[1]) > Len(d) THEN Len(T.daemons[1]) ELSE Len(d)
    IN [T EXCEPT !.daemons = [i \in 1 .. Len(T.daemons) + 1 |->
                                 IF i <= Len(T.daemons) THEN PadTo(T.daemons[i], w)
                                 ELSE PadTo(d, w)],
                 !.daemons_costs = Append(T.daemons_costs, c)]

\* daemons of true length buffer_size + 1, with their costs
UnreachableDaemons(T) ==
    { <<[s \in 1 .. T.buffer_size + 1 |-> v], c>> : v \in {1, 2}, c \in {1, 100} }

\* what solve can return for T: the path and total_points of every outcome
\* of the engine
SolveResults(T, cfg) ==
    { <<path(T, a.x), total_points(T, a.y)>> : a \in EngineOutcomes(T, cfg) }

\* C17: adding to a Task a daemon whose true length exceeds buffer_size,
\* with any positive cost, changes neither the paths solve can return nor
\* their total_points.
C17_UnreachableDaemonIsNeutral ==
    (pc = "returned" /\ ProvenOptimal /\ PlainTask(task)) =>
        \A dc \in UnreachableDaemons(task) :
            SolveResults(WithDaemon(task, dc[1], dc[2]), config)
                = SolveResults(task, config)

-----------------------------------------------------------------------------
(* Solutions compared, SoftTask costs *)

\* C19: the ordering of Solutions ranks by total_points first and by path
\* length second: if a.total_points < b.total_points then a < b is true and
\* b < a is false; with equal total_points the Solution with the shorter
\* path is the greater one; == compares total_points only, is_identical
\* compares every field.
C19_SolutionOrdering ==
    (pc = "idle" /\ ret.kind = "compared") =>
        /\ call.a.total_points < call.b.total_points => ret.lt /\ ~ret.lt_swapped
        /\ (call.a.total_points = call.b.total_points
              /\ Len(call.a.path) < Len(call.b.path)) => ret.gt
        /\ ret.eq <=> call.a.total_points = call.b.total_points
        /\ ret.identical <=> call.a = call.b

\* C20: a SoftTask built with an explicit costs list keeps it: the Task of
\* make_hard has daemons_costs equal to the list; only when costs is
\* omitted is each cost the length of its daemon.
C20_ExplicitCostsKept ==
    (pc = "idle" /\ task.kind = "Task" /\ "costs" \in DOMAIN call) =>
        task.daemons_costs =
            IF call.costs.given THEN call.costs.value
            ELSE [i \in 1 .. Len(call.daemons) |-> Len(call.daemons[i])]

-----------------------------------------------------------------------------
(* ScipConfig *)

\* C21: ScipConfig construction replaces None fields by the defaults
\* (False, 0.0, 1e20) and raises ValueError, never another exception, for
\* every absgap that is negative or not convertible to float and every
\* time_limit that is <= 0 or not convertible to float; every accepted
\* config has absgap >= 0 and time_limit > 0.  (Stated for arguments other
\* than NaN.)
C21_ConfigValidated ==
    (pc = "idle" /\ ret # NoValue /\ "absgap" \in DOMAIN call
        /\ call.absgap # PyNaN /\ call.time_limit # PyNaN) =>
        /\ ret.kind = "raised" => ret.exception = "ValueError"
        /\ (call.absgap # PyNone /\ (~Converts(call.absgap) \/ IsNegative(float(call.absgap))))
              => ret = Raised("ValueError")
        /\ (call.time_limit # PyNone
              /\ (~Converts(call.time_limit) \/ IsNotPositive(float(call.time_limit))))
              => ret = Raised("ValueError")
        /\ ret.kind = "ScipConfig" =>
              /\ call.verbose_output = PyNone => ret.verbose_output = FALSE
              /\ call.absgap = PyNone => ret.absgap = PyFloat(0, 0)
              /\ call.time_limit = PyNone => ret.time_limit = PyFloat(1, 20)
              /\ ret.absgap.m >= 0
              /\ ret.time_limit.m > 0

-----------------------------------------------------------------------------
(* The verbosity flag *)

\* every value solve can return for T under cfg
SolveValues(T, cfg) == { solve_result(T, a).value : a \in EngineOutcomes(T, cfg) }

-----------------------------------------------------------------------------
(* Incumbents *)

\* C24: when the engine has stopped at the time limit or within the gap
\* tolerance, holding a feasible assignment that need not be optimal, solve
\* raises nothing and returns the result built from that assignment: a
\* Solution with the assignment's path, or NoSolution when that path is
\* empty.
C24_IncumbentReturned ==
    (is_finished /\ ~ProvenOptimal /\ pc # "optimized") =>
        /\ Returned
        /\ LET p == path(task, sol.x)
           IN IF p = <<>>
              THEN result.value.kind = "NoSolution"
              ELSE /\ result.value.kind = "Solution"
                   /\ result.value.path = p
                   /\ result.value.active_daemons = active_daemons(task, sol.y)

\* an incumbent below the optimum has been returned at the time limit
C24_Witness ==
    /\ pc = "returned"
    /\ config.time_limited
    /\ result.value.kind = "Solution"
    /\ Objective(task, sol) < MaxOf({Objective(task, a) : a \in Feasible(task)})

-----------------------------------------------------------------------------
(* Concurrent calls *)

\* C23: solve calls that run at once share no mutable state, two calls on
\* the same ScipSolver instance included: a call that returns, returns a
\* result of its own Task, whatever the other call does in between.
C23_CallsIndependent ==
    \A c \in CallIds :
        calls[c].pc = "returned" =>
            calls[c].result.value \in SolveValues(calls[c].task, config)

-----------------------------------------------------------------------------
(* The order of build, optimize and extraction *)

\* C25: optimize raises RuntimeError unless build has completed; is_finished
\* changes only from false to true and only in an optimize that returned
\* without an exception (it stays false when the engine raised); and every
\* property of ResultExtractor raises RuntimeError while is_finished is
\* false.
C25_OrderEnforced ==
    [][ /\ (call'.method = "optimize" /\ ~is_builded) => ret' = Raised("RuntimeError")
        /\ (call'.method = "optimize" /\ ret'.kind = "raised") => is_finished' = is_finished
        /\ is_finished' # is_finished =>
              /\ is_finished'
              /\ is_builded
              /\ call'.method = "optimize"
              /\ ret'.kind = "returned"
        /\ (call'.method \in ExtractorProperties /\ ~is_finished) =>
              ret' = Raised("RuntimeError")
      ]_vars

\* the model is built, the engine raised in optimize, and a property of the
\* extractor was refused
C25_Witness ==
    /\ is_builded
    /\ ~is_finished
    /\ call.method = "total_points"
    /\ ret = Raised("RuntimeError")

-----------------------------------------------------------------------------
(* The registry *)

\* C26: GetSolver.all() returns, without raising, a dict that holds an
\* instance for every registered solver; GetSolver.single(code) returns an
\* instance not handed out before and raises ValueError only for a code that
\* is not registered.
C26_RegistryServes ==
    /\ call # NoValue /\ call.method = "all" =>
          /\ ret.kind = "dict"
          /\ \A code \in DOMAIN existing_solvers :
                code \in DOMAIN ret.value /\ ret.value[code].kind = "instance"
    /\ call # NoValue /\ call.method = "single" =>
          IF call.codes[1] \in DOMAIN existing_solvers
          THEN ret.kind = "instance" /\ ret.id = solver.created
          ELSE ret = Raised("ValueError")

-----------------------------------------------------------------------------
(* Padding *)

\* C27: make_hard pads every daemon on the right with STOP up to the length
\* of the longest one and leaves the daemons stored in the SoftTask as they
\* were given; in the Task the number of non-STOP symbols of daemon i is the
\* length of raw daemon i and its first symbols are the raw symbols in
\* order; a second make_hard gives the same Task as the first.
C27_PaddingKeepsDaemons ==
    ret.kind = "SoftTask" =>
        /\ ret._daemons = call.daemons
        /\ task.kind = "Task" =>
              LET max_len == MaxOf({Len(call.daemons[i]) : i \in 1 .. Len(call.daemons)})
              IN /\ Len(task.daemons) = Len(call.daemons)
                 /\ \A i \in 1 .. Len(call.daemons) :
                       /\ Len(task.daemons[i]) = max_len
                       /\ d_lengths(task)[i] = Len(call.daemons[i])
                       /\ \A s \in 1 .. max_len :
                             task.daemons[i][s] =
                                 IF s <= Len(call.daemons[i])
                                 THEN mapper_to_int(call.daemons[i][s])
                                 ELSE S_STOP
        /\ result # NoValue => result = task

\* make_hard has been called twice and a daemon was padded
C27_Witness ==
    /\ ret.kind = "SoftTask"
    /\ task.kind = "Task"
    /\ result = task
    /\ \E i \in 1 .. Len(call.daemons) : Len(call.daemons[i]) < Len(task.daemons[i])

-----------------------------------------------------------------------------
(* The constraint model against the legal paths *)

ZeroY(T) == [i \in 1 .. d_count(T) |-> 0]

\* C28: for every valid Task with HexSymbol cells the assignment with every
\* x, z and y equal to 0 satisfies all constraints of build: the movement
\* constraints, both indicator constraints of every daemon at every start
\* position with z = 0, and y_false / y_upper / y_lower with y = 0.  The
\* model is never infeasible and the assignment's path is the empty path.
C28_ZeroAssignmentFeasible ==
    /\ MovementConstraints(task, {})
    /\ \A i \in 1 .. d_count(task) : \A p \in 0 .. valid_p(task, i) - 1 :
          Indicator(task, {}, i, p, 0)
    /\ path(task, {}) = <<>>
    /\ pc = "start" => [x |-> {}, y |-> ZeroY(task)] \in Feasible(task)

\* the engine stopped with the all-zero assignment
C28_Witness ==
    /\ pc = "optimized"
    /\ sol = [x |-> {}, y |-> ZeroY(task)]
    /\ \E i \in 1 .. d_count(task) : valid_p(task, i) > 0


\* C29: for every legal path P of at most buffer_size cells the constraint
\* model has a feasible assignment whose extracted path is P and in which
\* y_i = 1 for every daemon i whose first L_i symbols occur contiguously in
\* the symbols of P: the indicator constraints exclude no legal path and no
\* earned activation.
C29_LegalPathsFeasible ==
    (pc = "start" /\ ProvenOptimal /\ ~config.verbose_output) =>
        \A P \in LegalPaths(task) :
            \E a \in Feasible(task) :
                /\ path(task, a.x) = P
                /\ \A i \in 1 .. d_count(task) :
                      Occurs(task, SymbolsAt(task, P), i) => a.y[i] = 1

\* the engine holds a path that completes a daemon at the last start
\* position, with that daemon active
C29_Witness ==
    /\ pc = "optimized"
    /\ \E i \in 1 .. d_count(task) :
          /\ sol.y[i] = 1
          /\ d_lengths(task)[i] = Len(path(task, sol.x))
          /\ Occurs(task, SymbolsAt(task, path(task, sol.x)), i)

-----------------------------------------------------------------------------
(* Hashing *)

\* C30: for two Solutions a and b, a == b implies hash(a) = hash(b), so two
\* Solutions with equal total_points and different paths are one element of
\* a set.
C30_EqualHashEqual ==
    (pc = "idle" /\ ret.kind = "compared" /\ ret.eq /\ call.a.path # call.b.path) =>
        /\ ret.hash_a = ret.hash_b
        /\ ret.set_len = 1

====
